---- MODULE Spec2Model ----
(***************************************************************************)
(* Notes API (notes_backend): the FastAPI handlers of src/api/main.py      *)
(* over the "notes" table of src/models.py, with the request and response  *)
(* schemas of src/schemas.py and the session dependency of src/db.py.      *)
(*                                                                         *)
(* A string is a sequence of one-character strings.  An optional value is  *)
(* a sequence of length 0 (None) or 1 (the value).                         *)
(***************************************************************************)
EXTENDS Integers, Sequences, FiniteSets, TLC

VARIABLES
    notes,      \* the committed rows of table "notes": id -> [title, content]
    nextId,     \* the next value of the serial sequence behind Note.id
    dbUp,       \* whether PostgreSQL answers the engine's connections
    pending,    \* a request suspended between its lookup and its commit
    resp,       \* the response the last step sent (NoResponse when none)
    deleted     \* history: the ids for which a delete has answered 204

vars == <<notes, nextId, dbUp, pending, resp, deleted>>

----------------------------------------------------------------------------
(* Bounds and program constants *)

\* the serial sequence hands out ids 1..MaxId
MaxId == 2

\* schemas.py: Field(min_length=1, max_length=200) of title; models.py String(200)
MinLen == 1
MaxTitleLen == 200

----------------------------------------------------------------------------
(* Strings and optional values *)

Whitespace == {" ", "\t"}

Rep(c, n) == [i \in 1..n |-> c]

None == <<>>
Some(v) == <<v>>
IsNone(o) == o = <<>>
Val(o) == o[1]

SetMax(S) == CHOOSE x \in S : \A y \in S : x >= y

\* str.strip(): drop the leading and the trailing whitespace, keep the inner one
Strip(s) ==
    IF \A i \in 1..Len(s) : s[i] \in Whitespace THEN <<>>
    ELSE SubSeq(s,
                CHOOSE i \in 1..Len(s) :
                    s[i] \notin Whitespace /\ \A j \in 1..(i - 1) : s[j] \in Whitespace,
                CHOOSE i \in 1..Len(s) :
                    s[i] \notin Whitespace /\ \A j \in (i + 1)..Len(s) : s[j] \in Whitespace)

\* the request payloads the model draws from
TitlePlain  == <<"\t", "a", " ", "b", " ">>
TitleBlank  == <<" ">>
TitleMax    == Rep("a", MaxTitleLen)
TitleOver   == Rep("a", MaxTitleLen + 1)
TitlePadded == Rep("a", MaxTitleLen) \o <<" ">>
Titles   == {<<>>, TitleBlank, TitlePlain, TitleMax, TitleOver, TitlePadded}
Contents == {<<>>, <<" ">>, <<"x">>}
UpdateTitles   == {None, Some(<<>>), Some(TitleBlank), Some(TitlePlain), Some(TitleOver)}
UpdateContents == {None, Some(<<>>), Some(<<"x">>)}
Ids == 1..MaxId

----------------------------------------------------------------------------
(* schemas.py *)

\* NoteBase / NoteCreate: both fields required, the lengths as declared
NoteCreate(title, content) ==
    /\ Len(title) >= MinLen
    /\ Len(title) <= MaxTitleLen
    /\ Len(content) >= MinLen

\* NoteUpdate: both fields optional, checked when given
NoteUpdate(title, content) ==
    /\ IF IsNone(title) THEN TRUE
       ELSE Len(Val(title)) >= MinLen /\ Len(Val(title)) <= MaxTitleLen
    /\ IF IsNone(content) THEN TRUE ELSE Len(Val(content)) >= MinLen

\* NoteOut(NoteBase): the response model a returned row is validated against
NoteOut(row) ==
    /\ row.id \in Int
    /\ Len(row.title) >= MinLen
    /\ Len(row.title) <= MaxTitleLen
    /\ Len(row.content) >= MinLen

----------------------------------------------------------------------------
(* The table and the session *)

Row(id, store) == [id |-> id, title |-> store[id].title, content |-> store[id].content]

\* db.get(Note, note_id): the row, or None
DbGet(store, id) == IF id \in DOMAIN store THEN Some(Row(id, store)) ELSE None

\* db.add(note); db.commit() of a new Note: INSERT with the next serial id
Insert(store, id, title, content) ==
    [i \in DOMAIN store \cup {id} |->
        IF i = id THEN [title |-> title, content |-> content] ELSE store[i]]

\* db.delete(note); db.commit(): DELETE FROM notes WHERE id = :id
DeleteRow(store, id) == [i \in DOMAIN store \ {id} |-> store[i]]

\* the serial sequence never hands a value out twice
NextVal_Reuse(store, seq) ==
    IF DOMAIN store = {} THEN 1 ELSE SetMax(DOMAIN store) + 1
NextVal(store, seq) == seq

\* db.query(Note).order_by(Note.id.desc()).all()
RECURSIVE OrderByIdDesc(_)
OrderByIdDesc(store) ==
    IF DOMAIN store = {} THEN <<>>
    ELSE LET m == SetMax(DOMAIN store)
         IN  <<Row(m, store)>> \o OrderByIdDesc([i \in DOMAIN store \ {m} |-> store[i]])

----------------------------------------------------------------------------
(* Responses *)

NoResponse == [op |-> "none", id |-> 0, title |-> None, content |-> None,
               status |-> 0, detail |-> "", body |-> <<>>]

Response(op, id, title, content, status, detail, body) ==
    [op |-> op, id |-> id, title |-> title, content |-> content,
     status |-> status, detail |-> detail, body |-> body]

\* _unhandled_exception_handler: any exception that is not an HTTPException
InternalError(op, id, title, content) ==
    Response(op, id, title, content, 500, "Internal Server Error", <<>>)

\* RequestValidationError of the payload
ValidationError(op, id, title, content) ==
    Response(op, id, title, content, 422, "validation error", <<>>)

\* raise HTTPException(status_code=404, detail="Note not found")
NotFound(op, id, title, content) ==
    Response(op, id, title, content, 404, "Note not found", <<>>)

\* response_model=NoteOut: the returned row is validated before it is sent
Serialize(op, id, title, content, status, row) ==
    IF NoteOut(row)
    THEN Response(op, id, title, content, status, "", <<row>>)
    ELSE InternalError(op, id, title, content)

\* response_model=List[NoteOut]
SerializeList(rows) ==
    IF \A i \in 1..Len(rows) : NoteOut(rows[i])
    THEN Response("list", 0, None, None, 200, "", rows)
    ELSE InternalError("list", 0, None, None)

----------------------------------------------------------------------------
(* The unit of work of update_note and delete_note *)

\* update_note, the two assignments: a field is set only when the payload has it
ApplyPayload_Overwrite(row, title, content) ==
    [id |-> row.id,
     title |-> IF IsNone(title) THEN row.title ELSE Strip(Val(title)),
     content |-> IF IsNone(content) THEN <<"x">> ELSE Val(content)]
ApplyPayload(row, title, content) ==
    [id |-> row.id,
     title |-> IF IsNone(title) THEN row.title ELSE Strip(Val(title)),
     content |-> IF IsNone(content) THEN row.content ELSE Val(content)]

\* the columns the flush writes: the attributes whose value differs from the loaded one
Dirty(loaded, obj) ==
    {f \in {"title", "content"} : obj[f] # loaded[f]}

\* UPDATE notes SET <dirty columns> WHERE id = :id matched no row (StaleDataError)
Stale(store, loaded, obj) ==
    Dirty(loaded, obj) # {} /\ obj.id \notin DOMAIN store

\* db.add(note); db.commit(): the UPDATE of the dirty columns, when there are any
Flush(store, loaded, obj) ==
    IF Dirty(loaded, obj) = {} \/ obj.id \notin DOMAIN store
    THEN store
    ELSE [store EXCEPT ![obj.id] =
            [title |-> IF "title" \in Dirty(loaded, obj) THEN obj.title ELSE @.title,
             content |-> IF "content" \in Dirty(loaded, obj) THEN obj.content ELSE @.content]]

\* update_note from db.add(note) on: commit, refresh, return note
UpdateStore(store, up, loaded, obj) ==
    IF up /\ ~Stale(store, loaded, obj) THEN Flush(store, loaded, obj) ELSE store

UpdateResponse(store, up, id, title, content, loaded, obj) ==
    IF ~up \/ Stale(store, loaded, obj)
    THEN InternalError("update", id, title, content)
    ELSE IF id \notin DOMAIN Flush(store, loaded, obj)
         \* db.refresh(note) finds no row (InvalidRequestError)
         THEN InternalError("update", id, title, content)
         ELSE Serialize("update", id, title, content, 200,
                        Row(id, Flush(store, loaded, obj)))

\* delete_note from db.delete(note) on: a DELETE that matches no row only warns
DeleteStore(store, up, id) == IF up THEN DeleteRow(store, id) ELSE store

DeleteResponse(up, id) ==
    IF up THEN Response("delete", id, None, None, 204, "", <<>>)
    ELSE InternalError("delete", id, None, None)

----------------------------------------------------------------------------
Init ==
    /\ notes = <<>>
    /\ nextId = 1
    /\ dbUp = TRUE
    /\ pending = None
    /\ resp = NoResponse
    /\ deleted = {}

(* GET /health/db *)
health_check_db_Raises ==
    /\ resp' = IF dbUp
               THEN Response("health_db", 0, None, None, 200, "up", <<>>)
               ELSE InternalError("health_db", 0, None, None)
    /\ UNCHANGED <<notes, nextId, dbUp, pending, deleted>>
health_check_db ==
    /\ resp' = IF dbUp
               THEN Response("health_db", 0, None, None, 200, "up", <<>>)
               ELSE Response("health_db", 0, None, None, 200, "down", <<>>)
    /\ UNCHANGED <<notes, nextId, dbUp, pending, deleted>>

(* GET /notes *)
list_notes ==
    /\ resp' = IF dbUp THEN SerializeList(OrderByIdDesc(notes))
               ELSE InternalError("list", 0, None, None)
    /\ UNCHANGED <<notes, nextId, dbUp, pending, deleted>>

(* POST /notes *)
create_note(title, content) ==
    IF ~NoteCreate(title, content)
    THEN /\ resp' = ValidationError("create", 0, Some(title), Some(content))
         /\ UNCHANGED <<notes, nextId, dbUp, pending, deleted>>
    ELSE IF ~dbUp
    THEN /\ resp' = InternalError("create", 0, Some(title), Some(content))
         /\ UNCHANGED <<notes, nextId, dbUp, pending, deleted>>
    ELSE /\ nextId <= MaxId
         /\ LET id == NextVal(notes, nextId)
            IN  /\ notes' = Insert(notes, id, Strip(title), content)
                /\ resp' = Serialize("create", id, Some(title), Some(content), 201,
                                     Row(id, notes'))
         /\ nextId' = nextId + 1
         /\ UNCHANGED <<dbUp, pending, deleted>>

(* GET /notes/{note_id} *)
get_note_NoCheck(note_id) ==
    /\ resp' = IF ~dbUp THEN InternalError("get", note_id, None, None)
               ELSE IF IsNone(DbGet(notes, note_id))
               THEN Response("get", note_id, None, None, 200, "", <<>>)
               ELSE Serialize("get", note_id, None, None, 200, Val(DbGet(notes, note_id)))
    /\ UNCHANGED <<notes, nextId, dbUp, pending, deleted>>
get_note(note_id) ==
    /\ resp' = IF ~dbUp THEN InternalError("get", note_id, None, None)
               ELSE IF IsNone(DbGet(notes, note_id))
               THEN NotFound("get", note_id, None, None)
               ELSE Serialize("get", note_id, None, None, 200, Val(DbGet(notes, note_id)))
    /\ UNCHANGED <<notes, nextId, dbUp, pending, deleted>>

(* PUT /notes/{note_id}, with no other request between its lookup and its commit *)
update_note(note_id, title, content) ==
    IF ~NoteUpdate(title, content)
    THEN /\ resp' = ValidationError("update", note_id, title, content)
         /\ UNCHANGED <<notes, nextId, dbUp, pending, deleted>>
    ELSE IF ~dbUp
    THEN /\ resp' = InternalError("update", note_id, title, content)
         /\ UNCHANGED <<notes, nextId, dbUp, pending, deleted>>
    ELSE IF IsNone(DbGet(notes, note_id))
    THEN /\ resp' = NotFound("update", note_id, title, content)
         /\ UNCHANGED <<notes, nextId, dbUp, pending, deleted>>
    ELSE LET loaded == Val(DbGet(notes, note_id))
             obj == ApplyPayload(loaded, title, content)
         IN  /\ notes' = UpdateStore(notes, dbUp, loaded, obj)
             /\ resp' = UpdateResponse(notes, dbUp, note_id, title, content, loaded, obj)
             /\ UNCHANGED <<nextId, dbUp, pending, deleted>>

(* PUT /notes/{note_id}: the lookup found the row; the request waits for its commit *)
update_note_lookup(note_id, title, content) ==
    /\ IsNone(pending)
    /\ NoteUpdate(title, content)
    /\ dbUp
    /\ ~IsNone(DbGet(notes, note_id))
    /\ pending' = Some([op |-> "update", id |-> note_id, title |-> title,
                        content |-> content, loaded |-> Val(DbGet(notes, note_id))])
    /\ resp' = NoResponse
    /\ UNCHANGED <<notes, nextId, dbUp, deleted>>

(* PUT /notes/{note_id}: the commit and refresh of the waiting request *)
update_note_commit ==
    /\ ~IsNone(pending)
    /\ Val(pending).op = "update"
    /\ LET p == Val(pending)
           obj == ApplyPayload(p.loaded, p.title, p.content)
       IN  /\ notes' = UpdateStore(notes, dbUp, p.loaded, obj)
           /\ resp' = UpdateResponse(notes, dbUp, p.id, p.title, p.content, p.loaded, obj)
    /\ pending' = None
    /\ UNCHANGED <<nextId, dbUp, deleted>>

(* DELETE /notes/{note_id}, with no other request between its lookup and its commit *)
delete_note(note_id) ==
    IF ~dbUp
    THEN /\ resp' = InternalError("delete", note_id, None, None)
         /\ UNCHANGED <<notes, nextId, dbUp, pending, deleted>>
    ELSE IF IsNone(DbGet(notes, note_id))
    THEN /\ resp' = NotFound("delete", note_id, None, None)
         /\ UNCHANGED <<notes, nextId, dbUp, pending, deleted>>
    ELSE /\ notes' = DeleteStore(notes, dbUp, note_id)
         /\ resp' = DeleteResponse(dbUp, note_id)
         /\ deleted' = deleted \cup {note_id}
         /\ UNCHANGED <<nextId, dbUp, pending>>

(* DELETE /notes/{note_id}: the lookup found the row; the request waits for its commit *)
delete_note_lookup(note_id) ==
    /\ IsNone(pending)
    /\ dbUp
    /\ ~IsNone(DbGet(notes, note_id))
    /\ pending' = Some([op |-> "delete", id |-> note_id, title |-> None,
                        content |-> None, loaded |-> Val(DbGet(notes, note_id))])
    /\ resp' = NoResponse
    /\ UNCHANGED <<notes, nextId, dbUp, deleted>>

(* DELETE /notes/{note_id}: the commit of the waiting request *)
delete_note_commit ==
    /\ ~IsNone(pending)
    /\ Val(pending).op = "delete"
    /\ notes' = DeleteStore(notes, dbUp, Val(pending).id)
    /\ resp' = DeleteResponse(dbUp, Val(pending).id)
    /\ deleted' = IF dbUp THEN deleted \cup {Val(pending).id} ELSE deleted
    /\ pending' = None
    /\ UNCHANGED <<nextId, dbUp>>

(* PostgreSQL stops or resumes answering *)
StoreDown ==
    /\ dbUp
    /\ dbUp' = FALSE
    /\ resp' = NoResponse
    /\ UNCHANGED <<notes, nextId, pending, deleted>>

StoreUp ==
    /\ ~dbUp
    /\ dbUp' = TRUE
    /\ resp' = NoResponse
    /\ UNCHANGED <<notes, nextId, pending, deleted>>

\* the payloads of the interleaved requests
TitleShort   == <<"c">>
RaceTitles   == {None, Some(TitlePlain), Some(TitleShort)}
RaceContents == {None, Some(<<"x">>)}

(* One request at a time; the store may stop answering at any moment *)
Next ==
    \/ health_check_db
    \/ list_notes
    \/ \E t \in Titles, c \in Contents : create_note(t, c)
    \/ \E i \in Ids : get_note(i)
    \/ \E i \in Ids, t \in UpdateTitles, c \in UpdateContents : update_note(i, t, c)
    \/ \E i \in Ids : delete_note(i)
    \/ StoreDown
    \/ StoreUp

Spec == Init /\ [][Next]_vars

(* Concurrent requests against a store that answers: an update or a delete *)
(* may wait between its lookup and its commit while other requests run     *)
NextConcurrent ==
    \/ list_notes
    \/ \E t \in {TitlePlain, TitleShort}, c \in {<<"x">>, <<" ">>} : create_note(t, c)
    \/ \E i \in Ids : get_note(i)
    \/ \E i \in Ids, t \in RaceTitles, c \in RaceContents : update_note(i, t, c)
    \/ \E i \in Ids, t \in RaceTitles, c \in RaceContents : update_note_lookup(i, t, c)
    \/ update_note_commit
    \/ \E i \in Ids : delete_note(i)
    \/ \E i \in Ids : delete_note_lookup(i)
    \/ delete_note_commit

SpecConcurrent == Init /\ [][NextConcurrent]_vars

----------------------------------------------------------------------------
(* Claims *)

InRange(n, lo, hi) == lo <= n /\ n <= hi

\* the payload as the specification reads it: the title is measured after trimming
TrimmedValid(title, content) ==
    /\ InRange(Len(Strip(title)), 1, MaxTitleLen)
    /\ Len(content) >= 1

\* C1: every stored note has a title of length 1..200 and a non-empty content.
C1_StoredNotesValid ==
    \A i \in DOMAIN notes :
        /\ InRange(Len(notes[i].title), 1, MaxTitleLen)
        /\ Len(notes[i].content) >= 1

\* C2: a create request passes validation if and only if its trimmed title has
\* length 1..200 and its content is non-empty; otherwise it is answered 422.
C2_CreateAcceptedIffTrimmedValid ==
    resp.op = "create" =>
        (resp.status # 422 <=> TrimmedValid(Val(resp.title), Val(resp.content)))

\* C3: a create whose payload passes validation answers 201 with a note that has
\* an id, and a get of a stored id answers 200 with the stored title and content
\* (the store answering in both).
C3_CreateThenGet ==
    [][/\ (resp'.op = "create" /\ dbUp /\ NoteCreate(Val(resp'.title), Val(resp'.content)))
            => /\ resp'.status = 201
               /\ Len(resp'.body) = 1
               /\ resp'.body[1].id \in DOMAIN notes'
               /\ resp'.body[1].title = notes'[resp'.body[1].id].title
               /\ resp'.body[1].content = notes'[resp'.body[1].id].content
       /\ (resp'.op = "get" /\ dbUp /\ resp'.id \in DOMAIN notes)
            => /\ resp'.status = 200
               /\ resp'.body = <<Row(resp'.id, notes)>>
      ]_vars

\* C4: an update answered 200 changes only the fields its payload supplies; the id
\* of the note and every other stored note stay as they were.
C4_UpdateChangesOnlySupplied ==
    [][(resp'.op = "update" /\ resp'.status = 200)
        => /\ resp'.id \in DOMAIN notes
           /\ DOMAIN notes' = DOMAIN notes
           /\ \A j \in DOMAIN notes \ {resp'.id} : notes'[j] = notes[j]
           /\ IsNone(resp'.title) => notes'[resp'.id].title = notes[resp'.id].title
           /\ IsNone(resp'.content) => notes'[resp'.id].content = notes[resp'.id].content
           /\ resp'.body[1].id = resp'.id
      ]_vars

\* C4 witness: an update that supplied only a title was answered 200 while
\* another note was stored.
C4_Witness ==
    /\ resp.op = "update"
    /\ resp.status = 200
    /\ ~IsNone(resp.title)
    /\ IsNone(resp.content)
    /\ notes[resp.id].title = Strip(Val(resp.title))
    /\ Cardinality(DOMAIN notes) >= 2

StrictlyDescending(rows) ==
    \A i \in 1..Len(rows) : \A j \in 1..Len(rows) : i < j => rows[i].id > rows[j].id

\* C5: list answers 200 with exactly the stored notes, each once, in strictly
\* descending id order (the store answering).
C5_ListReturnsStoredNotes ==
    [][(resp'.op = "list" /\ dbUp)
        => /\ resp'.status = 200
           /\ Len(resp'.body) = Cardinality(DOMAIN notes)
           /\ {resp'.body[k] : k \in 1..Len(resp'.body)} = {Row(i, notes) : i \in DOMAIN notes}
           /\ StrictlyDescending(resp'.body)
      ]_vars

\* C6 as written: get, update and delete on an id no stored note has always
\* answer 404 "Note not found" and leave the stored notes unchanged.
C6_MissingIdAlwaysNotFound ==
    [][(resp'.op \in {"get", "update", "delete"} /\ resp'.id \notin DOMAIN notes)
        => /\ resp'.status = 404
           /\ resp'.detail = "Note not found"
           /\ notes' = notes
      ]_vars

\* C6 amended: while the store answers, get and delete on an id no stored note
\* has, and update on such an id with a payload that passes validation, answer
\* 404 "Note not found"; the stored notes are unchanged.
C6_MissingIdNotFound ==
    [][(/\ resp'.op \in {"get", "update", "delete"}
        /\ resp'.id \notin DOMAIN notes
        /\ dbUp
        /\ resp'.op = "update" => NoteUpdate(resp'.title, resp'.content))
        => /\ resp'.status = 404
           /\ resp'.detail = "Note not found"
           /\ notes' = notes
      ]_vars

\* C6 witness: an update of an id that no stored note has was answered 404.
C6_Witness ==
    /\ resp.op = "update"
    /\ resp.status = 404
    /\ resp.id \notin DOMAIN notes
    /\ notes # <<>>

\* the notes other than id are the same in both stores
OthersSame(before, after, id) ==
    /\ DOMAIN after \ {id} = DOMAIN before \ {id}
    /\ \A j \in DOMAIN before \ {id} : after[j] = before[j]

\* C7 as written: once a delete of X has answered 204, every later get, update or
\* delete on X answers 404, X is never stored again, and the delete leaves the
\* other notes as they were.
C7_DeletedStaysNotFound ==
    [][/\ (resp'.op \in {"get", "update", "delete"} /\ resp'.id \in deleted)
            => resp'.status = 404
       /\ deleted' \cap DOMAIN notes' = {}
       /\ (resp'.op = "delete" /\ resp'.status = 204)
            => OthersSame(notes, notes', resp'.id)
      ]_vars

\* C7 amended: once a delete of X has answered 204, every later get or delete on
\* X, and every later update on X with a payload that passes validation, answers
\* 404 while the store answers; X is never stored again, and the delete leaves
\* the other notes as they were.
C7_DeletedNotFoundWhileStoreAnswers ==
    [][/\ (/\ resp'.op \in {"get", "update", "delete"}
           /\ resp'.id \in deleted
           /\ dbUp
           /\ resp'.op = "update" => NoteUpdate(resp'.title, resp'.content))
            => resp'.status = 404
       /\ deleted' \cap DOMAIN notes' = {}
       /\ (resp'.op = "delete" /\ resp'.status = 204)
            => OthersSame(notes, notes', resp'.id)
      ]_vars

\* C7 witness: a second delete of a deleted id was answered 404 after a later
\* create, and another note is stored.
C7_Witness ==
    /\ resp.op = "delete"
    /\ resp.status = 404
    /\ resp.id \in deleted
    /\ nextId > resp.id + 1
    /\ notes # <<>>

\* C8: the readiness check always answers 200, "up" exactly when the store
\* answers and "down" otherwise, and leaves the stored notes unchanged.
C8_ReadinessNeverFails ==
    [][resp'.op = "health_db"
        => /\ resp'.status = 200
           /\ resp'.detail = (IF dbUp THEN "up" ELSE "down")
           /\ notes' = notes
      ]_vars

\* C8 witness: the readiness check answered "down" with notes stored.
C8_Witness ==
    /\ resp.op = "health_db"
    /\ resp.detail = "down"
    /\ ~dbUp
    /\ notes # <<>>

\* C9: a create or update that is not answered 201 or 200 leaves the stored
\* notes unchanged.
C9_FailedRequestWritesNothing ==
    [][(resp'.op \in {"create", "update"} /\ resp'.status \notin {200, 201})
        => notes' = notes
      ]_vars

\* C10: under every interleaving of updates and deletes of one id, no request
\* is answered 500, and a commit that follows another request's delete of the
\* note is not answered 200 or 204.
C10_RacesEndInSuccessOrNotFound ==
    [][/\ resp'.op \in {"update", "delete"} => resp'.status \in {200, 204, 404}
       /\ (~IsNone(pending) /\ IsNone(pending') /\ Val(pending).id \notin DOMAIN notes)
            => resp'.status \notin {200, 204}
      ]_vars

====
